---- MODULE Spec2Model ----
(***************************************************************************)
(* Model of main.py, the e-commerce SEO API over Mercado Livre: the two    *)
(* retrieval strategies (fetch_meli_json, fetch_meli_html), the extraction *)
(* pipeline (extract_from_inline_json, parse_ml_list_html), the record     *)
(* normalisers (normalize_link, is_product_link, price_to_number) and the  *)
(* six handlers (root, health, debug_env, meli_search, meli_search_html,   *)
(* meli_search_html_debug).                                                *)
(*                                                                         *)
(* Text is modelled as a sequence of characters, so that the substring     *)
(* tests, replacements, case folding, trimming and URL splitting of the    *)
(* code are computed and not assumed.  A character is a one-character      *)
(* string; the code points a string of this module cannot hold (U+0000,    *)
(* U+0060 and those above U+00FF) are written by name, as in "U+2028". The *)
(* alphabet is Latin-1 together with the code points named in Whitespace   *)
(* and NetlocUnsafe.  A missing text is the value None.                    *)
(***************************************************************************)
EXTENDS Integers, Sequences, FiniteSets, TLC

None == <<"None">>

\* ---------------------------------------------------------------- bounds
\* longest candidate list of the bodies that exercise the 12-record cap
MaxCand == 14
\* longest candidate list of the bodies that mix the three stages
MaxShort == 1

\* ------------------------------------------------------- text primitives
Min(a, b) == IF a < b THEN a ELSE b

Max(a, b) == IF a < b THEN b ELSE a

\* s[i:] of Python, with i counted from 1
Drop(s, i) == IF i > Len(s) THEN <<>> ELSE SubSeq(s, i, Len(s))

\* s[:n] of Python
Take(s, n) == IF n <= 0 THEN <<>> ELSE SubSeq(s, 1, Min(n, Len(s)))

\* s.startswith(p, i-1)
StartsAt(s, p, i) ==
    /\ i + Len(p) - 1 <= Len(s)
    /\ \A k \in 1..Len(p) : s[i + k - 1] = p[k]

\* p in s
Contains(s, p) == \E i \in 1..(Len(s) + 1) : StartsAt(s, p, i)

UpperAlpha == <<"A","B","C","D","E","F","G","H","I","J","K","L","M","N","O","P","Q","R","S","T","U","V","W","X","Y","Z">>

LowerAlpha == <<"a","b","c","d","e","f","g","h","i","j","k","l","m","n","o","p","q","r","s","t","u","v","w","x","y","z">>

\* the cased letters of Latin-1 outside ASCII
UpperLatin == <<"À","Á","Â","Ã","Ä","Å","Æ","Ç","È","É","Ê","Ë","Ì","Í","Î","Ï","Ð","Ñ","Ò","Ó","Ô","Õ","Ö","Ø","Ù","Ú","Û","Ü","Ý","Þ">>

LowerLatin == <<"à","á","â","ã","ä","å","æ","ç","è","é","ê","ë","ì","í","î","ï","ð","ñ","ò","ó","ô","õ","ö","ø","ù","ú","û","ü","ý","þ">>

LowerMap ==
    LET up == UpperAlpha \o UpperLatin
        lo == LowerAlpha \o LowerLatin
    IN  [c \in {up[i] : i \in 1..Len(up)} |->
           lo[CHOOSE i \in 1..Len(up) : up[i] = c]]

LowerChar(c) == IF c \in DOMAIN LowerMap THEN LowerMap[c] ELSE c

\* str.lower()
Lower(s) == [i \in 1..Len(s) |-> LowerChar(s[i])]

\* the characters str.strip() removes: those for which str.isspace() holds
Whitespace ==
    { "\t", "\n", "", "\f", "\r", "", "", "", "", " ",
      "", " ",
      "U+1680", "U+2000", "U+2001", "U+2002", "U+2003", "U+2004", "U+2005",
      "U+2006", "U+2007", "U+2008", "U+2009", "U+200A", "U+2028", "U+2029",
      "U+202F", "U+205F", "U+3000" }

RECURSIVE LStrip(_)
LStrip(s) ==
    IF s # <<>> /\ s[1] \in Whitespace THEN LStrip(Tail(s)) ELSE s

RECURSIVE RStrip(_)
RStrip(s) ==
    IF s # <<>> /\ s[Len(s)] \in Whitespace
    THEN RStrip(SubSeq(s, 1, Len(s) - 1))
    ELSE s

\* str.strip()
Strip(s) == RStrip(LStrip(s))

\* position of the first occurrence of p in s from position i on; 0 for none
RECURSIVE Find(_, _, _)
Find(s, p, i) ==
    IF i + Len(p) - 1 > Len(s) THEN 0
    ELSE IF StartsAt(s, p, i) THEN i
         ELSE Find(s, p, i + 1)

\* str.replace(old, new): left to right, non-overlapping
RECURSIVE Replace(_, _, _)
Replace(s, old, new) ==
    LET i == Find(s, old, 1)
    IN  IF i = 0 THEN s
        ELSE SubSeq(s, 1, i - 1) \o new
               \o Replace(Drop(s, i + Len(old)), old, new)

DigitChars == <<"0","1","2","3","4","5","6","7","8","9">>

IsDigit(c) == \E i \in 1..10 : DigitChars[i] = c

DigitValue(c) == (CHOOSE i \in 1..10 : DigitChars[i] = c) - 1

\* re.sub(r"[^\d]", "", txt)
RECURSIVE OnlyDigits(_)
OnlyDigits(s) ==
    IF s = <<>> THEN <<>>
    ELSE IF IsDigit(s[1]) THEN <<s[1]>> \o OnlyDigits(Tail(s))
         ELSE OnlyDigits(Tail(s))

\* int(digits) for a non-empty sequence of digits
RECURSIVE ToInt(_)
ToInt(ds) ==
    IF ds = <<>> THEN 0
    ELSE 10 * ToInt(SubSeq(ds, 1, Len(ds) - 1)) + DigitValue(ds[Len(ds)])

\* str(i) for i >= 0
RECURSIVE ToStr(_)
ToStr(i) ==
    IF i < 10 THEN <<DigitChars[i + 1]>>
    ELSE ToStr(i \div 10) \o <<DigitChars[(i % 10) + 1]>>

\* ------------------------------------------------------ record normaliser
\* an optional integer: the empty sequence for Python's None, else the
\* one-element sequence of the number
NoPrice == <<>>

Price(n) == <<n>>

\* price_to_number: None for a missing or digit-free text, else the integer
\* spelled by its digits
price_to_number(txt) ==
    IF txt = None \/ txt = <<>> THEN NoPrice
    ELSE IF OnlyDigits(txt) = <<>> THEN NoPrice
         ELSE Price(ToInt(OnlyDigits(txt)))

BAD_TITLES ==
    { <<"P","u","b","l","i","c","i","d","a","d","e">>, <<"B","u","s","c","a","s"," ","r","e","l","a","c","i","o","n","a","d","a","s">>, <<"P","e","r","g","u","n","t","a","s"," ","r","e","l","a","c","i","o","n","a","d","a","s">>,
      <<"T","u","d","o"," ","s","o","b","r","e">>, <<"R","e","s","u","m","o"," ","d","o","s"," ","P","r","ó","s"," ","e"," ","C","o","n","t","r","a","s"," ","d","o"," ","i","P","h","o","n","e">> }

\* the character references html.unescape meets in the modelled inputs
HtmlEntities ==
    << <<<<"&","a","m","p",";">>, <<"&">>>>, <<<<"&","q","u","o","t",";">>, <<"\"">>>>, <<<<"&","l","t",";">>, <<"<">>>>, <<<<"&","g","t",";">>, <<">">>>>,
       <<<<"&","#","x","2","F",";">>, <<"/">>>>, <<<<"&","#","4","7",";">>, <<"/">>>> >>

\* html.unescape: one pass, each reference replaced where it starts
RECURSIVE HtmlUnescape(_)
HtmlUnescape(s) ==
    LET i == Find(s, <<"&">>, 1)
        t == Drop(s, i)
    IN  IF i = 0 THEN s
        ELSE IF \E e \in 1..Len(HtmlEntities) : StartsAt(t, HtmlEntities[e][1], 1)
             THEN LET e == CHOOSE e \in 1..Len(HtmlEntities) :
                               StartsAt(t, HtmlEntities[e][1], 1)
                  IN  SubSeq(s, 1, i - 1) \o HtmlEntities[e][2]
                        \o HtmlUnescape(Drop(t, Len(HtmlEntities[e][1]) + 1))
             ELSE SubSeq(s, 1, i) \o HtmlUnescape(Drop(s, i + 1))

normalize_link(u) ==
    IF u = None \/ u = <<>> THEN None
    ELSE HtmlUnescape(
           Replace(Replace(Replace(u, <<"\\","u","0","0","2","F">>, <<"/">>),
                           <<"$","q","u","e","r","y","_","N","o","I","n","d","e","x","_","T","r","u","e">>, <<>>),
                   <<"$","q","u","e","r","y">>, <<>>))

IsAlpha(c) == \E i \in 1..26 : UpperAlpha[i] = c \/ LowerAlpha[i] = c

\* urllib.parse.scheme_chars
scheme_chars(c) == IsAlpha(c) \/ IsDigit(c) \/ c \in {"+", "-", "."}

\* urllib.parse.uses_params
uses_params ==
    { <<>>, <<"f","t","p">>, <<"h","d","l">>, <<"p","r","o","s","p","e","r","o">>, <<"h","t","t","p">>, <<"i","m","a","p">>, <<"h","t","t","p","s">>, <<"s","h","t","t","p">>,
      <<"r","t","s","p">>, <<"r","t","s","p","s">>, <<"r","t","s","p","u">>, <<"s","i","p">>, <<"s","i","p","s">>, <<"m","m","s">>, <<"s","f","t","p">>, <<"t","e","l">> }

\* urllib.parse._WHATWG_C0_CONTROL_OR_SPACE: U+0000 to U+0020
C0ControlOrSpace ==
    { "U+0000", "", "", "", "", "", "", "", "",
      "\t", "\n", "", "\f", "\r", "", "", "", "", "",
      "", "", "", "", "", "", "", "", "",
      "", "", "", "", " " }

\* urllib.parse._UNSAFE_URL_BYTES_TO_REMOVE
UnsafeUrlBytes == {"\t", "\r", "\n"}

\* the characters whose NFKC form holds one of / ? # @ :
NetlocUnsafe ==
    { "U+2047", "U+2048", "U+2049", "U+2100", "U+2101", "U+2105", "U+2106",
      "U+2A74", "U+FE13", "U+FE16", "U+FE55", "U+FE56", "U+FE5F", "U+FE6B",
      "U+FF03", "U+FF0F", "U+FF1A", "U+FF1F", "U+FF20" }

\* position of the first character of s, from position i on, that is in cs;
\* Len(s) + 1 when there is none
RECURSIVE FindAny(_, _, _)
FindAny(s, cs, i) ==
    IF i > Len(s) THEN Len(s) + 1
    ELSE IF s[i] \in cs THEN i
         ELSE FindAny(s, cs, i + 1)

\* position of the last occurrence of the character c in s; 0 for none
RECURSIVE RFind(_, _)
RFind(s, c) ==
    IF s = <<>> THEN 0
    ELSE IF s[Len(s)] = c THEN Len(s)
         ELSE RFind(SubSeq(s, 1, Len(s) - 1), c)

\* s.lstrip(cs)
RECURSIVE LStripChars(_, _)
LStripChars(s, cs) ==
    IF s # <<>> /\ s[1] \in cs THEN LStripChars(Tail(s), cs) ELSE s

\* s with every character of cs removed
Without(s, cs) == SelectSeq(s, LAMBDA c : c \notin cs)

\* s.split(c) for a character c
RECURSIVE Split(_, _)
Split(s, c) ==
    LET i == FindAny(s, {c}, 1)
    IN  IF i > Len(s) THEN <<s>>
        ELSE <<SubSeq(s, 1, i - 1)>> \o Split(Drop(s, i + 1), c)

\* ipaddress._BaseV6._HEX_DIGITS
IsHex(c) ==
    IsDigit(c)
      \/ c \in {"a", "b", "c", "d", "e", "f", "A", "B", "C", "D", "E", "F"}

\* ipaddress._BaseV4._parse_octet does not raise
ValidOctet(o) ==
    /\ o # <<>>
    /\ \A k \in 1..Len(o) : IsDigit(o[k])
    /\ Len(o) <= 3
    /\ o = <<"0">> \/ o[1] # "0"
    /\ ToInt(o) <= 255

\* ipaddress.IPv4Address(s) does not raise
ValidIPv4(s) ==
    /\ ~Contains(s, <<"/">>)
    /\ s # <<>>
    /\ Len(Split(s, ".")) = 4
    /\ \A k \in 1..4 : ValidOctet(Split(s, ".")[k])

\* ipaddress._BaseV6._parse_hextet does not raise
ValidHextet(h) ==
    /\ \A k \in 1..Len(h) : IsHex(h[k])
    /\ Len(h) <= 4
    /\ h # <<>>

\* the parts before and after the "::" at position skip: hi parts are
\* copied from the front and lo parts from the back
ValidAround(parts, n, hi, lo) ==
    /\ parts[1] = <<>> => hi = 0
    /\ parts[n] = <<>> => lo = 0
    /\ 8 - (hi + lo) >= 1
    /\ \A i \in 1..hi : ValidHextet(parts[i])
    /\ \A i \in (n - lo + 1)..n : ValidHextet(parts[i])

\* at most one "::", at the positions skips between the first and the last
\* of the n parts
ValidSkips(parts, n, skips) ==
    /\ Cardinality(skips) <= 1
    /\ IF skips # {}
       THEN LET skip == CHOOSE i \in skips : TRUE
            IN  ValidAround(parts, n,
                            IF parts[1] = <<>> THEN skip - 2 ELSE skip - 1,
                            IF parts[n] = <<>> THEN n - skip - 1 ELSE n - skip)
       ELSE /\ n = 8
            /\ parts[1] # <<>>
            /\ parts[n] # <<>>
            /\ \A i \in 1..n : ValidHextet(parts[i])

\* at most 9 parts once the IPv4-style suffix was replaced
ValidParts(parts) ==
    /\ Len(parts) <= 9
    /\ ValidSkips(parts, Len(parts),
                  {i \in 2..(Len(parts) - 1) : parts[i] = <<>>})

\* an IPv4-style suffix is replaced by its two hextets
ValidSplit(split) ==
    /\ Len(split) >= 3
    /\ IF Contains(split[Len(split)], <<".">>)
       THEN /\ ValidIPv4(split[Len(split)])
            /\ ValidParts(SubSeq(split, 1, Len(split) - 1) \o <<<<"0">>, <<"0">>>>)
       ELSE ValidParts(split)

\* ipaddress._BaseV6._ip_int_from_string does not raise
ValidIPv6Parts(addr) ==
    /\ addr # <<>>
    /\ ValidSplit(Split(addr, ":"))

\* ipaddress._BaseV6._split_scope_id does not raise, for the percent sign
\* at position i: the scope is neither empty nor holds a percent sign
ValidScope(s, i) ==
    i <= Len(s) => Drop(s, i + 1) # <<>> /\ ~Contains(Drop(s, i + 1), <<"%">>)

\* ipaddress.IPv6Address(s) does not raise
ValidIPv6(s) ==
    /\ ~Contains(s, <<"/">>)
    /\ ValidScope(s, FindAny(s, {"%"}, 1))
    /\ ValidIPv6Parts(SubSeq(s, 1, FindAny(s, {"%"}, 1) - 1))

\* the characters after the first are hexadecimal up to a dot at
\* position dot, which is not the last
HexThenDot(h, dot) ==
    /\ dot > 2
    /\ dot < Len(h)
    /\ \A k \in 2..(dot - 1) : IsHex(h[k])
    /\ \A k \in (dot + 1)..Len(h) : h[k] # "\n"

\* re.match(r"\Av[a-fA-F0-9]+\..+\Z", h)
ValidIPvFuture(h) ==
    StartsAt(h, <<"v">>, 1) /\ HexThenDot(h, FindAny(h, {"."}, 2))

\* urllib.parse._check_bracketed_host does not raise
check_bracketed_host(h) ==
    IF StartsAt(h, <<"v">>, 1) THEN ValidIPvFuture(h)
    ELSE ~ValidIPv4(h) /\ ValidIPv6(h)

\* urllib.parse._checknetloc does not raise
checknetloc(netloc) == \A k \in 1..Len(netloc) : netloc[k] \notin NetlocUnsafe

\* netloc.partition("[")[2].partition("]")[0], for the first opening
\* bracket at position open
BracketedHost(netloc, open) ==
    SubSeq(netloc, open + 1, FindAny(netloc, {"]"}, open + 1) - 1)

\* the bracket tests of urlsplit pass: brackets come in pairs and hold an
\* IPv6 or IPvFuture address
BracketsOk(netloc, opened, closed) ==
    /\ opened <=> closed
    /\ opened /\ closed =>
         check_bracketed_host(BracketedHost(netloc, FindAny(netloc, {"["}, 1)))

\* the result of urlsplit for a network location and what follows it; ok is
\* FALSE where urlsplit raises ValueError
SplitResult(scheme, netloc, tail) ==
    [ok     |-> /\ BracketsOk(netloc, Contains(netloc, <<"[">>),
                              Contains(netloc, <<"]">>))
                /\ checknetloc(netloc),
     scheme |-> scheme,
     netloc |-> netloc,
     path   |-> SubSeq(tail, 1, FindAny(tail, {"?", "#"}, 1) - 1)]

\* urllib.parse._splitnetloc(rest, 2), for the end netEnd of the network
\* location
SplitNetloc(scheme, rest, netEnd) ==
    SplitResult(scheme, SubSeq(rest, 3, netEnd - 1), Drop(rest, netEnd))

\* urlsplit after the scheme
SplitRest(scheme, rest) ==
    IF StartsAt(rest, <<"/","/">>, 1)
    THEN SplitNetloc(scheme, rest, FindAny(rest, {"/", "?", "#"}, 3))
    ELSE SplitResult(scheme, <<>>, rest)

\* the text before the colon at position colon is a scheme
HasScheme(url, colon) ==
    /\ colon <= Len(url)
    /\ colon > 1
    /\ IsAlpha(url[1])
    /\ \A k \in 1..(colon - 1) : scheme_chars(url[k])

\* urlsplit from the first colon on
SplitScheme(url, colon) ==
    IF HasScheme(url, colon)
    THEN SplitRest(Lower(SubSeq(url, 1, colon - 1)), Drop(url, colon + 1))
    ELSE SplitRest(<<>>, url)

\* urlsplit of the cleaned text
SplitClean(url) == SplitScheme(url, FindAny(url, {":"}, 1))

\* urllib.parse.urlsplit: leading control characters and spaces are
\* stripped and TAB, CR, LF removed before the text is split
urlsplit(u) ==
    SplitClean(Without(LStripChars(u, C0ControlOrSpace), UnsafeUrlBytes))

\* url[:i] for the first semicolon at or after the last slash
ParamsFrom(url, slash, i) ==
    IF i <= Len(url) THEN SubSeq(url, 1, i - 1)
    ELSE IF slash > 0 THEN url
         ELSE SubSeq(url, 1, Len(url) - 1)

\* the semicolon is looked for from the last slash on
ParamsAfter(url, slash) ==
    ParamsFrom(url, slash, FindAny(url, {";"}, Max(slash, 1)))

\* urllib.parse._splitparams(url)[0]
splitparams(url) == ParamsAfter(url, RFind(url, "/"))

\* the parameters of the last path segment are split off the path of the
\* schemes that use them
WithoutParams(r) ==
    [ok     |-> r.ok,
     netloc |-> r.netloc,
     path   |-> IF r.scheme \in uses_params /\ Contains(r.path, <<";">>)
                THEN splitparams(r.path)
                ELSE r.path]

\* urllib.parse.urlparse
urlparse(u) == WithoutParams(urlsplit(u))

MarketDomain == <<"m","e","r","c","a","d","o","l","i","v","r","e",".","c","o","m",".","b","r">>

ProductHost == <<"p","r","o","d","u","t","o",".","m","e","r","c","a","d","o","l","i","v","r","e",".","c","o","m",".","b","r">>

ProductMarker == <<"m","l","b","-">>

\* the host test of is_product_link, line 67
HostMatches(host) == Contains(host, MarketDomain)

\* the product test of is_product_link, line 67
PathOrHostIsProduct(host, path) ==
    Contains(path, ProductMarker) \/ Contains(host, ProductHost)

\* lines 64 to 67 on the parsed URL; a ValueError of urlparse gives False
ParsedLinkTest(p) ==
    /\ p.ok
    /\ HostMatches(Lower(p.netloc))
    /\ PathOrHostIsProduct(Lower(p.netloc), Lower(p.path))

is_product_link(u) ==
    IF u = None \/ u = <<>> THEN FALSE
    ELSE ParsedLinkTest(urlparse(u))

\* ------------------------------------------------------------ the inputs
\* A candidate is one listing as the upstream page spells it: its title,
\* link, price text and thumbnail, each a text or None.
MaxItems == 12

BadKinds == {"badTitle", "blankTitle", "badLink"}

GoodTitle(i) ==
    IF i % 3 = 0 THEN <<" ","i","P","h","o","n","e"," ">> \o ToStr(i) \o <<" ">>
    ELSE <<"i","P","h","o","n","e"," ">> \o ToStr(i)

GoodLink(i) ==
    CASE i % 3 = 1 -> <<"h","t","t","p","s",":","/","/","p","r","o","d","u","t","o",".","m","e","r","c","a","d","o","l","i","v","r","e",".","c","o","m",".","b","r","/","M","L","B","-">> \o ToStr(i)
      [] i % 3 = 2 -> <<"h","t","t","p","s",":","/","/","w","w","w",".","m","e","r","c","a","d","o","l","i","v","r","e",".","c","o","m",".","b","r","/","p","/","M","L","B","-">>
                         \o ToStr(i)
      [] OTHER     -> <<"h","t","t","p","s",":","/","/","p","r","o","d","u","t","o",".","m","e","r","c","a","d","o","l","i","v","r","e",".","c","o","m",".","b","r","/","i","t","e","m">> \o ToStr(i)
                         \o <<"?","a","=","1","&","a","m","p",";","b","=","2","$","q","u","e","r","y">>

Good(i) ==
    [title |-> GoodTitle(i), link |-> GoodLink(i),
     price |-> ToStr(1000 + i),
     thumb |-> <<"\\","u","0","0","2","F","D","_">> \o ToStr(i) \o <<".","j","p","g">>]

Bad(i, kind) ==
    CASE kind = "badTitle"   -> [Good(i) EXCEPT !.title = <<"P","u","b","l","i","c","i","d","a","d","e">>]
      [] kind = "blankTitle" -> [Good(i) EXCEPT !.title = <<" ">>]
      [] OTHER               ->
           [Good(i) EXCEPT !.link = <<"h","t","t","p","s",":","/","/","l","i","s","t","a",".","m","e","r","c","a","d","o","l","i","v","r","e",".","c","o","m",".","b","r","/","c","e","l","u","l","a","r">>]

\* n candidates in page order, the one at position badAt (if any) of a kind
\* the filters reject
CandList(n, badAt, kind) ==
    [i \in 1..n |-> IF i = badAt THEN Bad(i, kind) ELSE Good(i)]

\* the candidate lists of lo to hi entries with at most one rejected entry,
\* which is the first, the one at the cap or the last
CandLists(lo, hi) ==
    { CandList(n, b, k) :
        n \in lo..hi, b \in {0, 1, MaxItems, hi}, k \in BadKinds }

\* what re.search captured for one of the four blob patterns, and what the
\* four re.findall calls find in it
NoBlob ==
    [found |-> FALSE, links |-> <<>>, titles |-> <<>>, prices |-> <<>>,
     thumbs |-> <<>>]

Blob(cs, skew) ==
    [found  |-> TRUE,
     links  |-> IF skew = "shortlinks"
                THEN [i \in 1..(Len(cs) - 1) |-> cs[i].link]
                ELSE [i \in 1..Len(cs) |-> cs[i].link],
     titles |-> [i \in 1..Len(cs) |-> cs[i].title],
     prices |-> IF skew = "noprices" THEN <<>>
                ELSE [i \in 1..Len(cs) |-> cs[i].price],
     thumbs |-> IF skew = "noprices" THEN <<>>
                ELSE [i \in 1..Len(cs) |-> cs[i].thumb]]

\* the blob patterns in the order extract_from_inline_json tries them:
\* __PRELOADED_STATE__, __NEXT_DATA__, "results", "permalink"
BlobPatterns == 1..4

Blobs(k, cs, skew) ==
    [p \in BlobPatterns |-> IF p = k THEN Blob(cs, skew) ELSE NoBlob]

NoBlobs == [p \in BlobPatterns |-> NoBlob]

\* one itemListElement entry of a JSON-LD block
LdEl(c) ==
    [el_dict |-> TRUE, item_dict |-> TRUE, name |-> c.title, url |-> c.link,
     price |-> c.price \o <<".","9","0">>]

LdJunk ==
    [el_dict |-> FALSE, item_dict |-> FALSE, name |-> None, url |-> None,
     price |-> None]

LdBlock(cs) ==
    [txt |-> "json", is_dict |-> TRUE, has_list |-> TRUE, type |-> "ItemList",
     els |-> [i \in 1..Len(cs) |-> LdEl(cs[i])]]

LdInvalid ==
    [txt |-> "invalid", is_dict |-> FALSE, has_list |-> FALSE, type |-> "",
     els |-> <<>>]

LdEmpty == [LdInvalid EXCEPT !.txt = "empty"]

\* the application/ld+json scripts of a page that carries the candidates cs
LdScripts(cs, shape) ==
    CASE shape = "single"  -> <<LdBlock(cs)>>
      [] shape = "guarded" ->
           <<LdInvalid, LdEmpty,
             [LdBlock(cs) EXCEPT !.els = <<LdJunk>> \o @, !.type = "Thing"]>>
      [] shape = "split"   ->
           <<LdBlock(Take(cs, Len(cs) \div 2)),
             LdBlock(Drop(cs, (Len(cs) \div 2) + 1))>>
      [] OTHER             ->
           <<[LdBlock(cs) EXCEPT !.has_list = FALSE, !.type = "Product"]>>

\* one product card: the href of its anchor, the text of its title element,
\* the two image attributes and the text of its price element
Card(c) ==
    [a |-> c.link, title |-> c.title, data_src |-> None, src |-> c.thumb,
     price |-> <<"R","$"," ">> \o c.price]

Cards(cs) == [i \in 1..Len(cs) |-> Card(cs[i])]

\* a response body: its length, its opening text, and what the three
\* extraction stages find in it
Body(len, head, blobs, ld, cards) ==
    [len |-> len, head |-> head, blobs |-> blobs, ld |-> ld, cards |-> cards]

NoBody == Body(0, <<>>, NoBlobs, <<>>, <<>>)

Page(blobs, ld, cards) == Body(5000, <<"<","!","D","O","C","T","Y","P","E"," ","h","t","m","l",">","<","h","t","m","l"," ","l","a","n","g","=","\"","p","t","-","B","R","\"",">">>,
                               blobs, ld, cards)

InlineChoices(lists) ==
    {NoBlobs}
      \cup { Blobs(1, cs, "none") : cs \in lists }
      \cup { Blobs(3, cs, "shortlinks") : cs \in lists }

LdChoices(lists) ==
    { LdScripts(cs, shape) : cs \in lists, shape \in {"single", "guarded"} }

\* pages that mix the three stages
MixedPages ==
    LET lists == CandLists(0, MaxShort)
    IN  { Page(b, l, Cards(c)) :
            b \in InlineChoices(lists), l \in LdChoices(lists), c \in lists }

\* pages on which one stage meets at least MaxItems candidates and the
\* later stages hold one more
LongPages ==
    LET lists == CandLists(MaxItems, MaxCand)
        extra == CandList(1, 0, "badLink")
    IN  { Page(Blobs(k, cs, "none"), l, c) :
            k \in {2, 4}, cs \in lists,
            l \in {<<>>, LdScripts(extra, "single")}, c \in {<<>>, Cards(extra)} }
          \cup { Page(Blobs(4, cs, "noprices"), <<>>, <<>>) : cs \in lists }
          \cup { Page(NoBlobs, LdScripts(cs, shape), c) :
                   cs \in lists, shape \in {"single", "split", "untyped"},
                   c \in {<<>>, Cards(extra)} }
          \cup { Page(NoBlobs, <<>>, Cards(cs)) : cs \in lists }

ParseBodies == MixedPages \cup LongPages

\* ------------------------------------------------------ extraction stages
Record(title, price, link, thumb) ==
    [title |-> title, price |-> price, link |-> link, thumbnail |-> thumb]

\* "not title or title in BAD_TITLES"
TitleRejected(title) == title = <<>> \/ title \in BAD_TITLES

\* the break taken one record too late
StageFullLate(items) == Len(items) > MaxItems

\* "len(items) >= 12", the break of the inline and of the card loop
StageFull(items) == Len(items) >= MaxItems

\* the first of the four blob patterns that re.search finds
FirstBlob(b) ==
    IF \E p \in BlobPatterns : b.blobs[p].found
    THEN b.blobs[CHOOSE p \in BlobPatterns :
                    /\ b.blobs[p].found
                    /\ \A r \in BlobPatterns : b.blobs[r].found => p <= r]
    ELSE NoBlob

\* blob = m.group(1).replace("\\u002F", "/"), seen through the findall lists
Unslash(texts) == [i \in 1..Len(texts) |-> Replace(texts[i], <<"\\","u","0","0","2","F">>, <<"/">>)]

\* the record built for index i of the zipped findall lists
InlineRecord(links, titles, prices, thumbs, i) ==
    Record(Strip(IF i <= Len(titles) THEN titles[i] ELSE <<>>),
           IF i <= Len(prices) THEN Price(ToInt(prices[i])) ELSE NoPrice,
           IF i <= Len(links) THEN normalize_link(links[i]) ELSE None,
           IF i <= Len(thumbs) THEN normalize_link(thumbs[i]) ELSE None)

InlineCount(links, titles, prices, thumbs) ==
    Max(Max(Len(links), Len(titles)), Max(Len(prices), Len(thumbs)))

\* the loop "for i in range(n)" of extract_from_inline_json, from index i on
RECURSIVE InlineLoop(_, _, _, _, _, _)
InlineLoop(links, titles, prices, thumbs, i, items) ==
    IF i > InlineCount(links, titles, prices, thumbs) THEN items
    ELSE
      LET r    == InlineRecord(links, titles, prices, thumbs, i)
          more == Append(items, r)
      IN  IF TitleRejected(r.title) \/ ~is_product_link(r.link)
          THEN InlineLoop(links, titles, prices, thumbs, i + 1, items)
          ELSE IF StageFull(more) THEN more
               ELSE InlineLoop(links, titles, prices, thumbs, i + 1, more)

extract_from_inline_json(b) ==
    LET m == FirstBlob(b)
    IN  IF ~m.found THEN <<>>
        ELSE InlineLoop(Unslash(m.links), Unslash(m.titles), m.prices,
                        Unslash(m.thumbs), 1, <<>>)

\* the record built for one itemListElement entry
LdRecord(el) ==
    Record(Strip(IF el.name = None THEN <<>> ELSE el.name),
           price_to_number(el.price), normalize_link(el.url), None)

\* the loop over data.get("itemListElement", []) of one JSON-LD block
RECURSIVE LdElements(_, _, _)
LdElements(els, i, items) ==
    IF i > Len(els) THEN items
    ELSE
      LET r == LdRecord(els[i])
      IN  IF ~(els[i].el_dict /\ els[i].item_dict)
          THEN LdElements(els, i + 1, items)
          ELSE IF TitleRejected(r.title) \/ ~is_product_link(r.link)
               THEN LdElements(els, i + 1, items)
               ELSE LdElements(els, i + 1, Append(items, r))

\* the loop over the application/ld+json scripts: empty and unparsable
\* scripts are skipped, the records of all ItemList blocks accumulate
RECURSIVE LdScriptsLoop(_, _, _)
LdScriptsLoop(scripts, k, items) ==
    IF k > Len(scripts) THEN items
    ELSE
      LET s == scripts[k]
      IN  IF s.txt # "json" THEN LdScriptsLoop(scripts, k + 1, items)
          ELSE IF s.is_dict /\ (s.has_list \/ s.type = "ItemList")
               THEN LdScriptsLoop(scripts, k + 1,
                      LdElements(IF s.has_list THEN s.els ELSE <<>>, 1, items))
               ELSE LdScriptsLoop(scripts, k + 1, items)

json_ld_items(b) == LdScriptsLoop(b.ld, 1, <<>>)

\* "items[:12]"
CapItems(items) == Take(items, MaxItems)

\* the record built for one product card
CardRecord(c) ==
    Record(Strip(Strip(IF c.title = None THEN <<>> ELSE c.title)),
           price_to_number(c.price),
           normalize_link(c.a),
           normalize_link(IF c.data_src = None \/ c.data_src = <<>>
                          THEN c.src ELSE c.data_src))

\* the loop "for c in cards" of parse_ml_list_html, from card i on
RECURSIVE CardsLoop(_, _, _)
CardsLoop(cards, i, items) ==
    IF i > Len(cards) THEN items
    ELSE
      LET r    == CardRecord(cards[i])
          more == Append(items, r)
      IN  IF TitleRejected(r.title) \/ ~is_product_link(r.link)
          THEN CardsLoop(cards, i + 1, items)
          ELSE IF StageFull(more) THEN more
               ELSE CardsLoop(cards, i + 1, more)

card_items(b) == CardsLoop(b.cards, 1, <<>>)

\* ------------------------------------------------------------- the state
VARIABLES
    PROXY_BASE,  \* ML_PROXY_URL trimmed, fixed at process start
    PROXY_EXTRA, \* ML_PROXY_EXTRA trimmed, fixed at process start
    GOOGLE_KEY,  \* whether GOOGLE_API_KEY is set, fixed at process start
    route,       \* the operation being served
    pc,          \* its position
    q,           \* the query of the request
    calls,       \* the get_text calls issued so far, in order
    tries,       \* the trace fetch_meli_html builds
    meli,        \* the diagnostic record fetch_meli_json returns
    html,        \* the body handed to parse_ml_list_html
    ran,         \* the extraction stages run so far, in order
    items,       \* the list parse_ml_list_html returns
    response,    \* what the handler returns
    u,           \* the argument of is_product_link
    link_ok      \* its result

vars == <<PROXY_BASE, PROXY_EXTRA, GOOGLE_KEY, route, pc, q, calls, tries,
          meli, html, ran, items, response, u, link_ok>>

\* the configuration read at process start, never written afterwards
config == <<PROXY_BASE, PROXY_EXTRA, GOOGLE_KEY>>

\* "USE_PROXY = bool(PROXY_BASE)"
USE_PROXY == PROXY_BASE # <<>>

\* the values the environment may give ML_PROXY_URL: unset, blank, a proxy
\* URL, a proxy URL of 12 characters
ProxyBaseEnv ==
    { <<>>, <<" ">>, <<" ","h","t","t","p","s",":","/","/","a","p","i",".","z","e","n","r","o","w","s",".","c","o","m","/","v","1","/","?","a","p","i","k","e","y","=","K","E","Y","&","u","r","l","=">>,
      <<"h","t","t","p",":","/","/","p","/","?","u","=">> }

\* the values the environment may give ML_PROXY_EXTRA
ProxyExtraEnv == { <<>>, <<"&","p","r","e","m","i","u","m","_","p","r","o","x","y","=","t","r","u","e"," ">> }

Queries == { <<"i","p","h","o","n","e">>, <<"m","o","t","o"," ","g">> }

\* quote_plus on the characters of the modelled URLs and queries: letters,
\* digits and "_.-~" stay, a space becomes "+", the rest is percent-encoded
QuoteTable ==
    << <<" ", <<"+">>>>, <<":", <<"%","3","A">>>>, <<"/", <<"%","2","F">>>>, <<"?", <<"%","3","F">>>>,
       <<"=", <<"%","3","D">>>>, <<"&", <<"%","2","6">>>>, <<"+", <<"%","2","B">>>> >>

RECURSIVE quote_plus(_)
quote_plus(s) ==
    IF s = <<>> THEN <<>>
    ELSE IF \E k \in 1..Len(QuoteTable) : QuoteTable[k][1] = s[1]
         THEN QuoteTable[CHOOSE k \in 1..Len(QuoteTable) :
                            QuoteTable[k][1] = s[1]][2]
                \o quote_plus(Tail(s))
         ELSE <<s[1]>> \o quote_plus(Tail(s))

\* urlencode(params) for a sequence of name and value pairs
RECURSIVE urlencode(_)
urlencode(params) ==
    IF params = <<>> THEN <<>>
    ELSE quote_plus(params[1][1]) \o <<"=">> \o quote_plus(params[1][2])
           \o (IF Len(params) = 1 THEN <<>>
               ELSE <<"&">> \o urlencode(Tail(params)))

\* the forced parameters {"js_render": v}
JsRender(v) == << <<<<"j","s","_","r","e","n","d","e","r">>, v>> >>

\* build_target: the raw URL itself without a proxy, else the proxy URL
\* followed by the quoted raw URL, PROXY_EXTRA and the forced parameters
build_target(raw, force_params) ==
    IF ~USE_PROXY THEN raw
    ELSE PROXY_BASE \o quote_plus(raw) \o PROXY_EXTRA
           \o (IF force_params # <<>> THEN <<"&">> \o urlencode(force_params)
               ELSE <<>>)

HtmlRaw(query) == <<"h","t","t","p","s",":","/","/","l","i","s","t","a",".","m","e","r","c","a","d","o","l","i","v","r","e",".","c","o","m",".","b","r","/">> \o quote_plus(query)

JsonRaw(query) ==
    <<"h","t","t","p","s",":","/","/","a","p","i",".","m","e","r","c","a","d","o","l","i","b","r","e",".","c","o","m","/","s","i","t","e","s","/","M","L","B","/","s","e","a","r","c","h","?","q","=">> \o quote_plus(query)
      \o <<"&","l","i","m","i","t","=","5">>

\* ---------------------------------------------------------- the upstream
Statuses == {200, 399, 400, 403}

OneGood == CandList(1, 0, "badLink")

OneRejected == CandList(1, 1, "badLink")

\* bodies the HTML page may answer with
NetBodies ==
    { NoBody,
      Body(19, <<"{","\"","e","r","r","o","r","\"",":","\"","b","l","o","c","k","e","d","\"","}">>, NoBlobs, <<>>, <<>>),
      Body(999, <<"<","h","t","m","l",">">>, NoBlobs, <<>>, Cards(OneGood)),
      Body(1000, <<"<","!","D","O","C","T","Y","P","E"," ","h","t","m","l",">","<","H","T","M","L",">">>,
           Blobs(1, CandList(2, 2, "badTitle"), "none"), <<>>, <<>>),
      Body(1000, <<"<","r","s","s"," ","v","e","r","s","i","o","n","=","\"","2",".","0","\"",">">>, NoBlobs, <<>>, Cards(OneGood)),
      Page(NoBlobs, LdScripts(OneGood, "single"), Cards(CandList(2, 0, "badLink"))),
      Page(Blobs(3, OneRejected, "none"), LdScripts(OneRejected, "single"),
           Cards(OneRejected)) }

\* dict(resp.headers), a set of name and value pairs
Headers(content_type) == { <<"content-type", content_type>> }

NoHeaders == {}

\* the headers the upstream sends with the body b
HeadersOf(b) ==
    IF StartsAt(b.head, <<"{">>, 1) THEN Headers("application/json")
    ELSE Headers("text/html")

TransportError ==
    [ok |-> FALSE, status |-> 0, headers |-> NoHeaders, body |-> NoBody]

HtmlOutcomes ==
    {TransportError}
      \cup { [ok |-> TRUE, status |-> s, headers |-> HeadersOf(b), body |-> b] :
               s \in Statuses, b \in NetBodies }

\* one result of the search API as json.loads yields it
JsonItem(c) ==
    [is_dict |-> TRUE, title |-> c.title, price |-> c.price,
     permalink |-> c.link, thumbnail |-> c.thumb]

JsonJunk ==
    [is_dict |-> FALSE, title |-> None, price |-> None, permalink |-> None,
     thumbnail |-> None]

\* an answer of more than 800 characters
JsonObject(cs) ==
    [kind |-> "object", len |-> 900, has_results |-> TRUE,
     results |-> [i \in 1..Len(cs) |-> JsonItem(cs[i])]]

\* texts the search API may answer with: not JSON, a JSON array, an object
\* without results, objects with results
JsonTexts ==
    { [kind |-> "invalid", len |-> 19, has_results |-> FALSE,
       results |-> <<>>],
      [kind |-> "array", len |-> 2, has_results |-> FALSE, results |-> <<>>],
      [kind |-> "object", len |-> 2, has_results |-> FALSE, results |-> <<>>],
      [JsonObject(OneGood) EXCEPT !.results = <<JsonJunk>> \o @] }
      \cup { JsonObject(cs) : cs \in CandLists(0, MaxShort + 1) }

NoJson ==
    [kind |-> "invalid", len |-> 0, has_results |-> FALSE, results |-> <<>>]

JsonOutcomes ==
    { [ok |-> FALSE, status |-> 0, headers |-> NoHeaders, text |-> NoJson] }
      \cup { [ok |-> TRUE, status |-> s,
              headers |-> Headers("application/json"), text |-> t] :
               s \in {200, 403}, t \in JsonTexts }

NoDiag ==
    [status |-> 0, headers |-> NoHeaders, target |-> <<>>, raw_preview |-> 0,
     has_json |-> FALSE, json |-> NoJson, error |-> ""]

\* the inputs of is_product_link
LinkSchemes == { <<"h","t","t","p","s",":","/","/">>, <<"h","t","t","p",":","/","/">>, <<"H","T","T","P","S",":","/","/">>, <<" ","h","t","t","p","s",":","/","/">>, <<>> }

LinkHosts ==
    { <<"p","r","o","d","u","t","o",".","m","e","r","c","a","d","o","l","i","v","r","e",".","c","o","m",".","b","r">>, <<"l","i","s","t","a",".","m","e","r","c","a","d","o","l","i","v","r","e",".","c","o","m",".","b","r">>,
      <<"w","w","w",".","m","e","r","c","a","d","o","l","i","v","r","e",".","c","o","m",".","b","r">>, <<"m","e","r","c","a","d","o","l","i","v","r","e",".","c","o","m",".","b","r">>,
      <<"P","R","O","D","U","T","O",".","M","e","r","c","a","d","o","L","i","v","r","e",".","c","o","m",".","b","r">>, <<"m","e","r","c","a","d","o","l","i","v","r","e",".","c","o","m",".","b","r",".","e","v","i","l",".","e","x","a","m","p","l","e">>,
      <<"n","o","t","m","e","r","c","a","d","o","l","i","v","r","e",".","c","o","m",".","b","r">>, <<"p","r","o","d","u","t","o",".","m","e","r","c","a","d","o","l","i","b","r","e",".","c","o","m">>,
      <<"w","w","w",".","e","x","a","m","p","l","e",".","c","o","m">>, <<"[","p","r","o","d","u","t","o",".","m","e","r","c","a","d","o","l","i","v","r","e",".","c","o","m",".","b","r">>,
      <<"[",":",":","1","]","p","r","o","d","u","t","o",".","m","e","r","c","a","d","o","l","i","v","r","e",".","c","o","m",".","b","r">> }

LinkPaths ==
    { <<"/","M","L","B","-","1","2","3","4","5","-","f","o","o">>, <<"/","c","e","l","u","l","a","r">>, <<"/","p","/","m","l","b","-","1","#","x">>, <<>>, <<"/","b","u","s","c","a","?","q","=","m","l","b","-","1">>,
      <<"/","p",";","m","l","b","-","1">>, <<"/","m","l","b","-","1",";","x">> }

LinkInputs ==
    {None, <<>>}
      \cup { s \o h \o p : s \in LinkSchemes, h \in LinkHosts, p \in LinkPaths }

\* -------------------------------------------------------------- the start
Init ==
    /\ PROXY_BASE \in {Strip(e) : e \in ProxyBaseEnv}
    /\ PROXY_EXTRA \in {Strip(e) : e \in ProxyExtraEnv}
    /\ GOOGLE_KEY \in BOOLEAN
    /\ route = "none"
    /\ pc = "idle"
    /\ q = <<>>
    /\ calls = <<>>
    /\ tries = <<>>
    /\ meli = NoDiag
    /\ html = NoBody
    /\ ran = <<>>
    /\ items = <<>>
    /\ response = [pending |-> TRUE]
    /\ u = None
    /\ link_ok = FALSE

\* ------------------------------------------------------- is_product_link
CheckLink(url) ==
    /\ pc = "idle"
    /\ route' = "link"
    /\ pc' = "done"
    /\ u' = url
    /\ link_ok' = is_product_link(url)
    /\ UNCHANGED <<config, q, calls, tries, meli, html, ran,
                   items, response>>

\* --------------------------------------------------- parse_ml_list_html
\* a direct call of parse_ml_list_html on the body b
ParseCall(b) ==
    /\ pc = "idle"
    /\ route' = "parse"
    /\ pc' = "inline"
    /\ html' = b
    /\ UNCHANGED <<config, q, calls, tries, meli, ran, items,
                   response, u, link_ok>>

\* the parse ended as soon as a blob was matched, whatever it yielded
AfterInlineStopsOnBlob(found) ==
    IF found # <<>> \/ FirstBlob(html).found THEN "parsed" ELSE "jsonld"

\* what parse_ml_list_html does after extract_from_inline_json returned
AfterInline(found) == IF found # <<>> THEN "parsed" ELSE "jsonld"

\* the JSON-LD records not returned before the card stage
AfterJsonLdAlwaysCards(found) == "cards"

\* what parse_ml_list_html does after the JSON-LD scripts were walked
AfterJsonLd(found) == IF found # <<>> THEN "parsed" ELSE "cards"

\* stage 0: items = extract_from_inline_json(html); if items: return items
StageInline ==
    /\ pc = "inline"
    /\ LET found == extract_from_inline_json(html)
       IN  /\ ran' = Append(ran, "inline")
           /\ items' = found
           /\ pc' = AfterInline(found)
    /\ UNCHANGED <<config, route, q, calls, tries, meli, html,
                   response, u, link_ok>>

\* stage 1: the JSON-LD scripts; if items: return items[:12]
StageJsonLd ==
    /\ pc = "jsonld"
    /\ LET found == json_ld_items(html)
       IN  /\ ran' = Append(ran, "jsonld")
           /\ items' = CapItems(found)
           /\ pc' = AfterJsonLd(found)
    /\ UNCHANGED <<config, route, q, calls, tries, meli, html,
                   response, u, link_ok>>

\* stage 2: the product cards; return items
StageCards ==
    /\ pc = "cards"
    /\ ran' = Append(ran, "cards")
    /\ items' = card_items(html)
    /\ pc' = "parsed"
    /\ UNCHANGED <<config, route, q, calls, tries, meli, html,
                   response, u, link_ok>>

\* ------------------------------------------------------ fetch_meli_html
\* one entry of the trace
Attempt(target, o) ==
    [status |-> o.status, target |-> target, headers |-> o.headers,
     raw_preview |-> Min(o.body.len, 600), html |-> o.body]

\* the fallback decided without looking at the proxy configuration
NeedSecondWithoutProxy(st, len) == st >= 400 \/ len < 1000

\* "(st1 >= 400 or len(tx1) < 1000) and USE_PROXY"
NeedSecond(st, len) == (st >= 400 \/ len < 1000) /\ USE_PROXY

\* the awaited get_text raised: nothing in fetch_meli_html or in the handler
\* catches it
Unhandled == [error |-> "TransportError"]

\* the handlers that call fetch_meli_html
HtmlRoutes == {"search_html", "search_html_debug"}

\* first attempt of fetch_meli_html, called by the handler rt
HtmlFetch1(rt, query, o) ==
    /\ pc = "idle"
    /\ route' = rt
    /\ q' = query
    /\ LET target == IF USE_PROXY
                     THEN build_target(HtmlRaw(query), JsRender(<<"t","r","u","e">>))
                     ELSE HtmlRaw(query)
       IN  /\ calls' = <<[target |-> target, ok |-> o.ok]>>
           /\ IF o.ok
              THEN /\ tries' = <<Attempt(target, o)>>
                   /\ pc' = IF NeedSecond(o.status, o.body.len)
                            THEN "fetch2" ELSE "traced"
                   /\ UNCHANGED response
              ELSE /\ response' = Unhandled
                   /\ pc' = "done"
                   /\ UNCHANGED tries
    /\ UNCHANGED <<config, meli, html, ran, items, u, link_ok>>

\* second attempt of fetch_meli_html
HtmlFetch2(o) ==
    /\ pc = "fetch2"
    /\ LET target == build_target(HtmlRaw(q), JsRender(<<"f","a","l","s","e">>))
       IN  /\ calls' = Append(calls, [target |-> target, ok |-> o.ok])
           /\ IF o.ok
              THEN /\ tries' = Append(tries, Attempt(target, o))
                   /\ pc' = "traced"
                   /\ UNCHANGED response
              ELSE /\ response' = Unhandled
                   /\ pc' = "done"
                   /\ UNCHANGED tries
    /\ UNCHANGED <<config, route, q, meli, html, ran, items, u,
                   link_ok>>

\* ----------------------------------------------------- meli_search_html
\* 't.get("html") and "<html" in t["html"].lower()'
Usable(t) == t.html.len > 0 /\ Contains(Lower(t.html.head), <<"<","h","t","m","l">>)

\* "for t in reversed(traces)": the index of the chosen attempt, 0 for none
RECURSIVE ScanBack(_, _)
ScanBack(traces, i) ==
    IF i = 0 THEN 0
    ELSE IF Usable(traces[i]) THEN i
         ELSE ScanBack(traces, i - 1)

\* the trace scanned in issue order instead of reversed
RECURSIVE ScanForward(_, _)
ScanForward(traces, i) ==
    IF i > Len(traces) THEN 0
    ELSE IF Usable(traces[i]) THEN i
         ELSE ScanForward(traces, i + 1)

select_htmlForward(traces) == ScanForward(traces, 1)

select_html(traces) == ScanBack(traces, Len(traces))

\* the choice of the body, and the total-failure answer when there is none
HtmlSelect ==
    /\ pc = "traced"
    /\ route = "search_html"
    /\ LET k == select_html(tries)
       IN  IF k = 0
           THEN /\ response' =
                     [message |-> "Não foi possível obter HTML da busca.",
                      tries |-> tries]
                /\ pc' = "done"
                /\ UNCHANGED html
           ELSE /\ html' = tries[k].html
                /\ pc' = "inline"
                /\ UNCHANGED response
    /\ UNCHANGED <<config, route, q, calls, tries, meli, ran,
                   items, u, link_ok>>

\* the outcomes of model.generate_content
GenOutcomes == {"generated", "failed"}

\* seo_text: the placeholder without a key, else the generated text or the
\* failure note
SeoText(g) == IF GOOGLE_KEY THEN g ELSE "disabled"

\* the emptiness test left out
NoResultsNever(results) == FALSE

\* "if not results"
NoResults(results) == results = <<>>

\* the answer of meli_search_html once parse_ml_list_html returned
HtmlRespond(g) ==
    /\ pc = "parsed"
    /\ route = "search_html"
    /\ pc' = "done"
    /\ response' =
         IF NoResults(items)
         THEN [message |-> "HTML obtido, mas nenhum item foi parseado.",
               tries |-> Take(tries, 1), html_preview |-> Min(html.len, 500)]
         ELSE [query |-> q, results |-> items, seo_text |-> SeoText(g)]
    /\ UNCHANGED <<config, route, q, calls, tries, meli, html,
                   ran, items, u, link_ok>>

\* ----------------------------------------------- meli_search_html_debug
\* the answer of meli_search_html_debug once fetch_meli_html returned: the
\* last attempt of the trace, its body cut to 2000 characters and not parsed
DebugRespond ==
    /\ pc = "traced"
    /\ route = "search_html_debug"
    /\ pc' = "done"
    /\ LET best == tries[Len(tries)]
       IN  response' =
             [status |-> best.status, target |-> best.target,
              headers |-> best.headers,
              html_preview |-> Min(best.html.len, 2000)]
    /\ UNCHANGED <<config, route, q, calls, tries, meli, html, ran, items, u,
                   link_ok>>

\* ------------------------------------------------ root, health, debug_env
\* a handler that reads at most the configuration and answers at once
Answer(rt, body) ==
    /\ pc = "idle"
    /\ route' = rt
    /\ pc' = "done"
    /\ response' = body
    /\ UNCHANGED <<config, q, calls, tries, meli, html, ran, items, u,
                   link_ok>>

\* 'RedirectResponse("/docs")'
Root == Answer("root", [redirect |-> <<"/","d","o","c","s">>])

\* '{"ok": True}'
Health == Answer("health", [ok |-> TRUE])

\* _mask: the first keep characters and an ellipsis for a longer text
mask(s, keep) ==
    IF s = <<>> THEN <<>>
    ELSE IF Len(s) > keep THEN Take(s, keep) \o <<".",".",".">> ELSE s

DebugEnv ==
    Answer("debug_env",
           [use_proxy |-> USE_PROXY,
            proxy_base_preview |-> mask(PROXY_BASE, 12),
            proxy_extra |-> PROXY_EXTRA])

\* ------------------------------------------------------ fetch_meli_json
\* the single get_text call of fetch_meli_json and the record it returns
JsonFetch(query, o) ==
    /\ pc = "idle"
    /\ route' = "search"
    /\ q' = query
    /\ pc' = "fetched"
    /\ LET target == build_target(JsonRaw(query), <<>>)
       IN  /\ calls' = <<[target |-> target, ok |-> o.ok]>>
           /\ meli' =
                IF o.ok
                THEN [status |-> o.status, headers |-> o.headers,
                      target |-> target,
                      raw_preview |-> Min(o.text.len, 800),
                      has_json |-> TRUE, json |-> o.text, error |-> ""]
                ELSE [status |-> 0, headers |-> NoHeaders, target |-> target,
                      raw_preview |-> 0, has_json |-> FALSE, json |-> NoJson,
                      error |-> "TransportError"]
    /\ UNCHANGED <<config, tries, html, ran, items, response,
                   u, link_ok>>

\* ---------------------------------------------------------- meli_search
\* 'meli["status"] != 200 or not isinstance(meli.get("json"), dict)'
NoValidJson(m) == m.status # 200 \/ ~(m.has_json /\ m.json.kind = "object")

\* the record meli_search copies from one result of the API
JsonRecord(item) ==
    Record(item.title,
           IF item.price = None THEN NoPrice ELSE Price(ToInt(item.price)),
           item.permalink, item.thumbnail)

\* meli["json"].get("results", [])
JsonResults(m) == IF m.json.has_results THEN m.json.results ELSE <<>>

\* the answer of meli_search once fetch_meli_json returned
JsonRespond(g) ==
    /\ pc = "fetched"
    /\ route = "search"
    /\ pc' = "done"
    /\ IF NoValidJson(meli)
       THEN /\ response' =
                 [message |-> "Mercado Livre não retornou JSON válido.",
                  diagnostic |-> meli]
            /\ UNCHANGED items
       ELSE LET raw == JsonResults(meli)
                results == [i \in 1..Len(raw) |-> JsonRecord(raw[i])]
            IN  IF \E i \in 1..Len(raw) : ~raw[i].is_dict
                THEN /\ response' = [error |-> "AttributeError"]
                     /\ UNCHANGED items
                ELSE /\ items' = results
                     /\ response' =
                          IF NoResults(results)
                          THEN [message |-> "Sem resultados ou bloqueado.",
                                meli_status |-> meli.status,
                                meli_preview |-> meli.raw_preview]
                          ELSE [query |-> q, results |-> results,
                                seo_text |-> SeoText(g)]
    /\ UNCHANGED <<config, route, q, calls, tries, meli, html,
                   ran, u, link_ok>>

\* ------------------------------------------------------------ the system
\* the six handlers, each request served from the idle process
Next ==
    \/ Root
    \/ Health
    \/ DebugEnv
    \/ \E rt \in HtmlRoutes, query \in Queries, o \in HtmlOutcomes :
         HtmlFetch1(rt, query, o)
    \/ \E o \in HtmlOutcomes : HtmlFetch2(o)
    \/ HtmlSelect
    \/ StageInline
    \/ StageJsonLd
    \/ StageCards
    \/ \E g \in GenOutcomes : HtmlRespond(g)
    \/ DebugRespond
    \/ \E query \in Queries, o \in JsonOutcomes : JsonFetch(query, o)
    \/ \E g \in GenOutcomes : JsonRespond(g)

Spec == Init /\ [][Next]_vars

\* parse_ml_list_html and is_product_link read no configuration: their
\* specifications start without proxy and without key
InitPure == Init /\ PROXY_BASE = <<>> /\ PROXY_EXTRA = <<>> /\ ~GOOGLE_KEY

\* parse_ml_list_html applied to the bodies of ParseBodies
NextParse ==
    \/ \E b \in ParseBodies : ParseCall(b)
    \/ StageInline
    \/ StageJsonLd
    \/ StageCards

SpecParse == InitPure /\ [][NextParse]_vars

\* is_product_link applied to the inputs of LinkInputs
NextLink == \E url \in LinkInputs : CheckLink(url)

SpecLink == InitPure /\ [][NextLink]_vars

\* ------------------------------------------------------------ properties
\* A record is a valid product record: a trimmed, non-empty title outside
\* the blocklist and a link that is_product_link accepts.
ValidRecord(r) ==
    /\ r.title # None
    /\ r.title # <<>>
    /\ Strip(r.title) = r.title
    /\ r.title \notin BAD_TITLES
    /\ is_product_link(r.link)

\* every candidate the inline stage meets in the body b, in body order
InlineAll(b) ==
    LET m == FirstBlob(b)
    IN  [i \in 1..InlineCount(m.links, m.titles, m.prices, m.thumbs) |->
           InlineRecord(Unslash(m.links), Unslash(m.titles), m.prices,
                        Unslash(m.thumbs), i)]

IsItemList(s) == s.txt = "json" /\ s.is_dict /\ s.has_list

IsItem(el) == el.el_dict /\ el.item_dict

RECURSIVE LdAllFrom(_, _)
LdAllFrom(scripts, k) ==
    IF k > Len(scripts) THEN <<>>
    ELSE (IF IsItemList(scripts[k])
          THEN LET els == SelectSeq(scripts[k].els, IsItem)
               IN  [i \in 1..Len(els) |-> LdRecord(els[i])]
          ELSE <<>>) \o LdAllFrom(scripts, k + 1)

\* every candidate of the ItemList blocks of the body b, in body order
LdAll(b) == LdAllFrom(b.ld, 1)

\* every candidate card of the body b, in body order
CardsAll(b) == [i \in 1..Len(b.cards) |-> CardRecord(b.cards[i])]

\* the candidates of a stage that pass the title and the link filter
Accepted(stage, b) ==
    CASE stage = "inline" -> SelectSeq(InlineAll(b), ValidRecord)
      [] stage = "jsonld" -> SelectSeq(LdAll(b), ValidRecord)
      [] OTHER            -> SelectSeq(CardsAll(b), ValidRecord)

StageOrder == <<"inline", "jsonld", "cards">>

\* fetch_meli_html returned or failed after its first attempt was answered
HtmlFetchOver ==
    /\ route \in HtmlRoutes
    /\ pc \notin {"idle", "fetch2"}
    /\ calls[1].ok

\* fetch_meli_html returned its trace
HtmlTraceReturned ==
    /\ route \in HtmlRoutes
    /\ pc \notin {"idle", "fetch2"}
    /\ \A i \in 1..Len(calls) : calls[i].ok

\* C1: fetch_meli_html issues one or two attempts, kept in the trace in issue
\* order; the second, with js_render=false forced, if and only if a proxy is
\* configured and the first answered with a status of 400 or more or with a
\* body under 1000 characters; the first forces js_render=true through the
\* proxy, and without a proxy it targets the raw URL and stays alone.
C1_HtmlAttempts ==
    HtmlFetchOver =>
      /\ Len(calls) \in {1, 2}
      /\ Len(calls) = 2 <=>
           (USE_PROXY /\ (tries[1].status >= 400 \/ tries[1].html.len < 1000))
      /\ calls[1].target =
           IF USE_PROXY
           THEN PROXY_BASE \o quote_plus(HtmlRaw(q)) \o PROXY_EXTRA
                  \o <<"&","j","s","_","r","e","n","d","e","r","=","t","r","u","e">>
           ELSE HtmlRaw(q)
      /\ Len(calls) = 2 =>
           calls[2].target =
             PROXY_BASE \o quote_plus(HtmlRaw(q)) \o PROXY_EXTRA
               \o <<"&","j","s","_","r","e","n","d","e","r","=","f","a","l","s","e">>
      /\ ~USE_PROXY => Len(calls) = 1
      /\ HtmlTraceReturned =>
           /\ Len(tries) = Len(calls)
           /\ \A i \in 1..Len(tries) : tries[i].target = calls[i].target

\* a blocked first attempt through the proxy was followed by a second one
C1_Witness ==
    /\ HtmlTraceReturned
    /\ USE_PROXY
    /\ Len(tries) = 2
    /\ tries[1].status = 403
    /\ tries[1].html.len >= 1000

\* C2: fetch_meli_json retries a transport failure, up to three attempts in
\* all, and stops at the first attempt that does not fail that way; an
\* answered first attempt is the only one.
C2_JsonRetries ==
    (route = "search" /\ pc \in {"fetched", "done"}) =>
      /\ Len(calls) \in 1..3
      /\ \A i \in 1..(Len(calls) - 1) : ~calls[i].ok
      /\ ~calls[Len(calls)].ok => Len(calls) = 3

\* C3: both handlers end by returning a structured body, whatever the fetch
\* attempts did; no failure escapes as an unhandled error.
C3_NoUnhandledError ==
    (route \in {"search", "search_html"} /\ pc = "done") =>
      "error" \notin DOMAIN response

\* C4: the stages run in the order inline, JSON-LD, cards, a stage only when
\* every earlier one yielded no record, and the list returned is the output
\* of the first stage that yields a record; a body with a valid ItemList
\* block and valid cards (and nothing for the stage before them) returns the
\* ItemList records and never runs the card stage.
C4_StageOrder ==
    (route = "parse" /\ ran # <<>>) =>
      /\ ran = SubSeq(StageOrder, 1, Len(ran))
      /\ \A k \in 1..Len(ran) : \A j \in 1..(k - 1) :
           Accepted(StageOrder[j], html) = <<>>
      /\ pc = "parsed" =>
           /\ \/ Accepted(ran[Len(ran)], html) # <<>>
              \/ Len(ran) = Len(StageOrder)
           /\ items = Take(Accepted(ran[Len(ran)], html), MaxItems)
           /\ ( /\ Accepted("inline", html) = <<>>
                /\ Accepted("jsonld", html) # <<>>
                /\ Accepted("cards", html) # <<>> ) =>
                /\ ran = <<"inline", "jsonld">>
                /\ items = Take(Accepted("jsonld", html), MaxItems)
      /\ Accepted("jsonld", html) # <<>> => ran[Len(ran)] # "cards"

\* a body with ItemList records and card records returned the former
C4_Witness ==
    /\ route = "parse"
    /\ pc = "parsed"
    /\ Accepted("jsonld", html) # <<>>
    /\ Accepted("cards", html) # <<>>
    /\ ran = <<"inline", "jsonld">>
    /\ items # <<>>

\* C5: the list returned has at most 12 records, and when the winning stage
\* meets more than 12 candidates that pass the filters it has exactly the
\* first 12 of them, in body order.
C5_ResultCap ==
    (route = "parse" /\ pc = "parsed") =>
      LET acc == Accepted(ran[Len(ran)], html)
      IN  /\ Len(items) <= 12
          /\ Len(acc) > 12 =>
               /\ Len(items) = 12
               /\ \A k \in 1..12 : items[k] = acc[k]

\* the winning stage met more than 12 accepted candidates and returned 12
C5_Witness ==
    /\ route = "parse"
    /\ pc = "parsed"
    /\ Len(Accepted(ran[Len(ran)], html)) > 12
    /\ Len(items) = 12

\* C6: every record of a success response of either handler is a valid
\* product record.
C6_ResultsValid ==
    (pc = "done" /\ "results" \in DOMAIN response) =>
      \A k \in 1..Len(response.results) : ValidRecord(response.results[k])

\* C7: meli_search_html answers with results only when there is one; a
\* selected body from which no stage keeps a record gets the answer with
\* message, tries and html_preview.
C7_NoEmptySuccess ==
    (route = "search_html" /\ pc = "done") =>
      /\ "results" \in DOMAIN response => response.results # <<>>
      /\ ( /\ ran # <<>>
           /\ \A k \in 1..3 : Accepted(StageOrder[k], html) = <<>> ) =>
           /\ DOMAIN response = {"message", "tries", "html_preview"}
           /\ response.tries = Take(tries, 1)
      /\ ( /\ ran # <<>>
           /\ \E k \in 1..3 : Accepted(StageOrder[k], html) # <<>> ) =>
           /\ DOMAIN response = {"query", "results", "seo_text"}
           /\ response.results = items

\* a selected body whose candidates were all rejected was answered
C7_Witness ==
    /\ route = "search_html"
    /\ pc = "done"
    /\ ran = StageOrder
    /\ html.cards # <<>>
    /\ "html_preview" \in DOMAIN response

\* the body carries the root HTML marker, in any case
HasHtmlMarker(b) == b.len > 0 /\ Contains(Lower(b.head), <<"<","h","t","m","l">>)

\* C9: the body handed to extraction is that of the last attempt of the
\* trace that carries the root HTML marker; when no attempt does, extraction
\* is not run and the answer is the failure message with the whole trace.
C9_LastHtmlWins ==
    (HtmlTraceReturned /\ route = "search_html" /\ pc # "traced") =>
      IF \E i \in 1..Len(tries) : HasHtmlMarker(tries[i].html)
      THEN /\ \E i \in 1..Len(tries) :
                /\ HasHtmlMarker(tries[i].html)
                /\ \A j \in (i + 1)..Len(tries) : ~HasHtmlMarker(tries[j].html)
                /\ html = tries[i].html
           /\ pc = "inline" \/ ran # <<>>
      ELSE /\ ran = <<>>
           /\ pc = "done"
           /\ DOMAIN response = {"message", "tries"}
           /\ response.tries = tries

\* two attempts carried the marker and the later body went to extraction
C9_Witness ==
    /\ HtmlTraceReturned
    /\ route = "search_html"
    /\ Len(tries) = 2
    /\ HasHtmlMarker(tries[1].html)
    /\ HasHtmlMarker(tries[2].html)
    /\ tries[1].html # tries[2].html
    /\ html = tries[2].html
    /\ ran # <<>>

\* the inline stage matched a blob and kept none of its candidates
BlobAllRejected(b) ==
    FirstBlob(b).found /\ InlineAll(b) # <<>> /\ Accepted("inline", b) = <<>>

\* C10 as in the specification: a matched blob whose candidates are all
\* rejected ends the parse with the empty list, the later stages not tried.
C10_MatchedBlobStops ==
    (route = "parse" /\ pc = "parsed" /\ BlobAllRejected(html)) =>
      /\ ran = <<"inline">>
      /\ items = <<>>

\* C10 as the code has it: a matched blob whose candidates are all rejected
\* counts as no record; the JSON-LD stage runs next, then the card stage if
\* that yields nothing too, and their records are returned.
C10_MatchedBlobFallsThrough ==
    (route = "parse" /\ pc = "parsed" /\ BlobAllRejected(html)) =>
      /\ Len(ran) >= 2
      /\ ran = SubSeq(StageOrder, 1, Len(ran))
      /\ IF Accepted("jsonld", html) # <<>>
         THEN ran = <<"inline", "jsonld">>
                /\ items = Take(Accepted("jsonld", html), MaxItems)
         ELSE ran = StageOrder
                /\ items = Take(Accepted("cards", html), MaxItems)

\* a fully rejected blob was followed by cards that gave the result
C10_Witness ==
    /\ route = "parse"
    /\ pc = "parsed"
    /\ BlobAllRejected(html)
    /\ ran = StageOrder
    /\ items # <<>>

\* s ends with p
EndsWith(s, p) == Len(p) <= Len(s) /\ StartsAt(s, p, Len(s) - Len(p) + 1)

\* the host is the marketplace domain or one of its subdomains
BelongsToMarket(host) ==
    host = MarketDomain \/ EndsWith(host, <<".">> \o MarketDomain)

\* C8: is_product_link(u) holds exactly when the host of u belongs to
\* mercadolivre.com.br and the path carries "mlb-" in any case or the host
\* is produto.mercadolivre.com.br; never for a host outside the domain that
\* only contains its name, never for a missing or empty u.
C8_ProductLinkIff ==
    (route = "link" /\ pc = "done") =>
      link_ok =
        IF u = None \/ u = <<>> THEN FALSE
        ELSE LET host == Lower(urlparse(u).netloc)
                 path == Lower(urlparse(u).path)
             IN  /\ BelongsToMarket(host)
                 /\ Contains(path, <<"m","l","b","-">>) \/ host = ProductHost

====
